---- MODULE Spec2Model ----
(***************************************************************************)
(* Model of the verification middleware of pickipedia-mcp                  *)
(* (src/src/middleware/verification.ts), of the middleware pipeline        *)
(* (src/src/middleware/index.ts) and of the two edit tools that call it.   *)
(* Wikitext is modelled character by character on TLA+ strings: Len,       *)
(* SubSeq and \o are the only primitive string operations used.            *)
(***************************************************************************)
EXTENDS Integers, Sequences, FiniteSets, TLC

(***************************************************************************)
(* JavaScript string primitives used by the source.                       *)
(***************************************************************************)
Char(s, i) == SubSeq(s, i, i)

From(s, i) == SubSeq(s, i, Len(s))

Whitespace == {" ", "\t", "\n", "\r", "\f"}

LineTerminators == {"\n", "\r"}

UpperAlpha == "ABCDEFGHIJKLMNOPQRSTUVWXYZ"

LowerAlpha == "abcdefghijklmnopqrstuvwxyz"

UpperSet == {Char(UpperAlpha, k) : k \in 1..26}

LowerChar(c) ==
    IF c \in UpperSet
    THEN Char(LowerAlpha, CHOOSE k \in 1..26 : Char(UpperAlpha, k) = c)
    ELSE c

RECURSIVE toLowerCase(_)
toLowerCase(s) ==
    IF Len(s) = 0 THEN ""
    ELSE LowerChar(Char(s, 1)) \o toLowerCase(From(s, 2))

\* s has the literal lit at position i (1-based), case-sensitively
MatchAt(s, i, lit) ==
    /\ i >= 1
    /\ i + Len(lit) - 1 <= Len(s)
    /\ SubSeq(s, i, i + Len(lit) - 1) = lit

\* the same under the regex flag /i
MatchAtCI(s, i, lit) ==
    /\ i >= 1
    /\ i + Len(lit) - 1 <= Len(s)
    /\ \A k \in 1..Len(lit) : LowerChar(Char(s, i + k - 1)) = LowerChar(Char(lit, k))

startsWith(s, lit) == MatchAt(s, 1, lit)

\* the position after the maximal run of whitespace starting at i (regex \s*)
SkipWs(s, i) ==
    CHOOSE j \in i..(Len(s) + 1) :
        /\ \A k \in i..(j - 1) : Char(s, k) \in Whitespace
        /\ (j = Len(s) + 1 \/ Char(s, j) \notin Whitespace)

trim(s) ==
    IF \A k \in 1..Len(s) : Char(s, k) \in Whitespace THEN ""
    ELSE LET a == CHOOSE i \in 1..Len(s) :
                    /\ Char(s, i) \notin Whitespace
                    /\ \A k \in 1..(i - 1) : Char(s, k) \in Whitespace
             b == CHOOSE i \in 1..Len(s) :
                    /\ Char(s, i) \notin Whitespace
                    /\ \A k \in (i + 1)..Len(s) : Char(s, k) \in Whitespace
         IN  SubSeq(s, a, b)

\* first position of lit in s at or after i, 0 when there is none
indexOfFrom(s, lit, i) ==
    IF \E p \in i..Len(s) : MatchAt(s, p, lit)
    THEN CHOOSE p \in i..Len(s) :
            /\ MatchAt(s, p, lit)
            /\ \A q \in i..(p - 1) : ~MatchAt(s, q, lit)
    ELSE 0

indexOf(s, lit) == indexOfFrom(s, lit, 1)

RECURSIVE split(_)
split(s) ==
    LET p == indexOf(s, "\n")
    IN  IF p = 0 THEN <<s>>
        ELSE <<SubSeq(s, 1, p - 1)>> \o split(From(s, p + 1))

RECURSIVE join(_, _)
join(parts, sep) ==
    IF Len(parts) = 0 THEN ""
    ELSE IF Len(parts) = 1 THEN parts[1]
    ELSE parts[1] \o sep \o join(Tail(parts), sep)

\* s.replace( /lit/g, by ) for a literal pattern
RECURSIVE replaceAll(_, _, _)
replaceAll(s, lit, by) ==
    LET p == indexOf(s, lit)
    IN  IF p = 0 THEN s
        ELSE SubSeq(s, 1, p - 1) \o by \o replaceAll(From(s, p + Len(lit)), lit, by)

(***************************************************************************)
(* verification.ts: constants                                              *)
(***************************************************************************)
EXEMPT_NAMESPACES == <<"Template", "Talk", "User", "MediaWiki", "Special", "PickiPedia">>

TEMPLATES_WITH_STATUS == <<"Show", "Venue", "Scene", "Artist", "Song", "Album">>

WrapperOpen == "{{Bot_proposes|"

WrapperClose == "|by=Magent}}"

PipeEscape == "{{!}}"

StatusField == "|status=proposed\n"

AdvisoryNote == "This edit was automatically marked as \"proposed\" and requires human verification."

(***************************************************************************)
(* verification.ts: stripBotProposes, normalizeLine, buildLineSet          *)
(***************************************************************************)
\* the position after the maximal run of characters other than '}' (regex [^}]+ / [^}]*)
NonBraceRunEnd(s, q) ==
    CHOOSE j \in q..(Len(s) + 1) :
        /\ \A k \in q..(j - 1) : Char(s, k) # "}"
        /\ (j = Len(s) + 1 \/ Char(s, j) = "}")

\* /\{\{Bot_proposes\|(.+?)\|by=[^}]+\}\}/i matches at p with a group of n characters
WrapperMatch(text, p, n) ==
    LET c == p + Len(WrapperOpen)
        q == c + n + Len("|by=")
    IN  /\ n >= 1
        /\ MatchAtCI(text, c + n, "|by=")
        /\ MatchAtCI(text, p, WrapperOpen)
        /\ \A k \in c..(c + n - 1) : Char(text, k) \notin LineTerminators
        /\ NonBraceRunEnd(text, q) > q
        /\ MatchAt(text, NonBraceRunEnd(text, q), "}}")

stripBotProposes(text) ==
    LET starts == {p \in 1..Len(text) :
                     /\ MatchAtCI(text, p, WrapperOpen)
                     /\ \E n \in 1..Len(text) : WrapperMatch(text, p, n)}
    IN  IF starts # {}
        THEN LET p == CHOOSE p1 \in starts : \A p0 \in starts : p1 <= p0
                 n == CHOOSE n1 \in 1..Len(text) :
                        /\ WrapperMatch(text, p, n1)
                        /\ \A n0 \in 1..(n1 - 1) : ~WrapperMatch(text, p, n0)
                 c == p + Len(WrapperOpen)
             IN  replaceAll(SubSeq(text, c, c + n - 1), PipeEscape, "|")
        ELSE text

normalizeLine(line) == trim(stripBotProposes(trim(line)))

buildLineSet(source) ==
    LET lines == split(source)
    IN  {normalizeLine(lines[i]) : i \in 1..Len(lines)} \ {""}

(***************************************************************************)
(* verification.ts: isExemptNamespace                                      *)
(***************************************************************************)
isExemptNamespace(title) ==
    IF \E p \in 1..Len(title) : MatchAtCI(title, p, "_talk:") THEN TRUE
    ELSE LET colonIndex == indexOf(title, ":")
         IN  IF colonIndex = 0 THEN FALSE
             ELSE LET namespace == SubSeq(title, 1, colonIndex - 1)
                  IN  \E k \in 1..Len(EXEMPT_NAMESPACES) :
                         toLowerCase(namespace) = toLowerCase(EXEMPT_NAMESPACES[k])

(***************************************************************************)
(* verification.ts: marker detection                                       *)
(***************************************************************************)
\* /\|\s*status\s*=\s*(proposed|unverified)/i matches at p, for the given values
StatusFieldAt(s, p, values) ==
    /\ MatchAt(s, p, "|")
    /\ LET a == SkipWs(s, p + 1)
       IN  /\ MatchAtCI(s, a, "status")
           /\ LET b == SkipWs(s, a + Len("status"))
              IN  /\ MatchAt(s, b, "=")
                  /\ \E v \in values : MatchAtCI(s, SkipWs(s, b + 1), v)

hasVerificationMarkers(source) ==
    \/ \E p \in 1..Len(source) : MatchAtCI(source, p, "{{Bot_proposes")
    \/ \E p \in 1..Len(source) : StatusFieldAt(source, p, {"proposed", "unverified"})

isAlreadyVerified(text) ==
    \E p \in 1..Len(text) : \E name \in {"verified", "source"} :
        /\ MatchAtCI(text, p, "{{" \o name)
        /\ MatchAt(text, SkipWs(text, p + 2 + Len(name)), "|")

(***************************************************************************)
(* verification.ts: the template status injector and the brace matcher     *)
(***************************************************************************)
\* ^\s*\{\{<template>\s*[\n|] with flag i
TemplateOpens(source, template) ==
    LET a == SkipWs(source, 1)
        b == a + 2 + Len(template)
        e == SkipWs(source, b)
    IN  /\ MatchAtCI(source, a, "{{" \o template)
        /\ \/ \E k \in b..(e - 1) : Char(source, k) = "\n"
           \/ MatchAt(source, e, "|")

getTemplateWithStatus(source) ==
    IF \E k \in 1..Len(TEMPLATES_WITH_STATUS) : TemplateOpens(source, TEMPLATES_WITH_STATUS[k])
    THEN TEMPLATES_WITH_STATUS[CHOOSE k \in 1..Len(TEMPLATES_WITH_STATUS) :
            /\ TemplateOpens(source, TEMPLATES_WITH_STATUS[k])
            /\ \A j \in 1..(k - 1) : ~TemplateOpens(source, TEMPLATES_WITH_STATUS[j])]
    ELSE ""

\* \{\{<template>[^}]*\|\s*status\s*=\s*proposed with flag i, anywhere in source
templateHasProposedStatus(source, template) ==
    \E p \in 1..Len(source) :
        /\ MatchAtCI(source, p, "{{" \o template)
        /\ LET b == p + 2 + Len(template)
           IN  \E q \in b..(NonBraceRunEnd(source, b) - 1) :
                  StatusFieldAt(source, q, {"proposed"})

injectTemplateStatus(source, template) ==
    IF templateHasProposedStatus(source, template) THEN source
    ELSE LET a == SkipWs(source, 1)
             b == a + 2 + Len(template)
             e == SkipWs(source, b)
         IN  IF /\ MatchAtCI(source, a, "{{" \o template)
                /\ \E k \in b..(e - 1) : Char(source, k) = "\n"
             THEN LET last == CHOOSE k \in b..(e - 1) :
                                /\ Char(source, k) = "\n"
                                /\ \A j \in (k + 1)..(e - 1) : Char(source, j) # "\n"
                  IN  SubSeq(source, 1, last) \o StatusField \o From(source, last + 1)
             ELSE source

\* the loop of findTemplateEnd; i is 1-based, so the loop runs while i < Len(source)
RECURSIVE findTemplateEndLoop(_, _, _)
findTemplateEndLoop(source, i, depth) ==
    IF ~(i < Len(source)) THEN Len(source) + 1
    ELSE IF MatchAt(source, i, "{{") THEN findTemplateEndLoop(source, i + 2, depth + 1)
    ELSE IF MatchAt(source, i, "}}")
         THEN IF depth - 1 = 0 THEN i + 2
              ELSE findTemplateEndLoop(source, i + 2, depth - 1)
    ELSE findTemplateEndLoop(source, i + 1, depth)

\* returns the 1-based position of the first character after the template
findTemplateEnd(source, startIndex) == findTemplateEndLoop(source, startIndex, 0)

(***************************************************************************)
(* verification.ts: the content segmenter and the provenance wrapper       *)
(***************************************************************************)
\* the optional parameter existingLines: undefined, or a Set of normalized lines
NoBaseline == [present |-> FALSE, lines |-> {}]

Baseline(set) == [present |-> TRUE, lines |-> set]

\* isNonWrappableLine without the heading test
isNonWrappableLineNoHeading(line) ==
    LET trimmed == trim(line)
    IN  \/ trimmed = ""
        \/ startsWith(trimmed, "[[Category:")
        \/ startsWith(trimmed, "{{")
        \/ startsWith(trimmed, "|}")
        \/ startsWith(trimmed, "{|")
        \/ startsWith(trimmed, "|")
        \/ startsWith(trimmed, "!")

isNonWrappableLine(line) ==
    LET trimmed == trim(line)
    IN  \/ trimmed = ""
        \/ startsWith(trimmed, "==")
        \/ startsWith(trimmed, "[[Category:")
        \/ startsWith(trimmed, "{{")
        \/ startsWith(trimmed, "|}")
        \/ startsWith(trimmed, "{|")
        \/ startsWith(trimmed, "|")
        \/ startsWith(trimmed, "!")

ListMarkers == {"*", "#", ":", ";"}

isListItem(line) ==
    LET trimmed == trim(line)
    IN  \E m \in ListMarkers : startsWith(trimmed, m)

\* /^\[\[[^\]]+\]\]$/
isBareLink(content) ==
    /\ Len(content) >= 5
    /\ startsWith(content, "[[")
    /\ MatchAt(content, Len(content) - 1, "]]")
    /\ \A k \in 3..(Len(content) - 2) : Char(content, k) # "]"

escapePipes(text) == replaceAll(text, "|", PipeEscape)

\* wrapListItemContent without the bare-link test
wrapListItemContentNoLinkSkip(line, existingLines) ==
    LET trimmed == trim(line)
        \* /^([*#:;]+)\s*(.*)$/ : the prefix, then the content after the whitespace
        pe == CHOOSE j \in 1..(Len(trimmed) + 1) :
                 /\ \A k \in 1..(j - 1) : Char(trimmed, k) \in ListMarkers
                 /\ (j = Len(trimmed) + 1 \/ Char(trimmed, j) \notin ListMarkers)
        prefix == SubSeq(trimmed, 1, pe - 1)
        content == From(trimmed, SkipWs(trimmed, pe))
    IN  IF pe = 1 \/ \E k \in 1..Len(content) : Char(content, k) \in LineTerminators
        THEN line
        ELSE IF content = "" \/ startsWith(content, "{{Bot_proposes") \/ isAlreadyVerified(content)
        THEN line
        ELSE IF existingLines.present /\ normalizeLine(content) \in existingLines.lines
        THEN line
        ELSE prefix \o " " \o WrapperOpen \o escapePipes(content) \o WrapperClose

wrapListItemContent(line, existingLines) ==
    LET trimmed == trim(line)
        \* /^([*#:;]+)\s*(.*)$/ : the prefix, then the content after the whitespace
        pe == CHOOSE j \in 1..(Len(trimmed) + 1) :
                 /\ \A k \in 1..(j - 1) : Char(trimmed, k) \in ListMarkers
                 /\ (j = Len(trimmed) + 1 \/ Char(trimmed, j) \notin ListMarkers)
        prefix == SubSeq(trimmed, 1, pe - 1)
        content == From(trimmed, SkipWs(trimmed, pe))
    IN  IF pe = 1 \/ \E k \in 1..Len(content) : Char(content, k) \in LineTerminators
        THEN line
        ELSE IF content = "" \/ startsWith(content, "{{Bot_proposes") \/ isAlreadyVerified(content)
        THEN line
        ELSE IF isBareLink(content)
        THEN line
        ELSE IF existingLines.present /\ normalizeLine(content) \in existingLines.lines
        THEN line
        ELSE prefix \o " " \o WrapperOpen \o escapePipes(content) \o WrapperClose

\* the closure flushParagraph: returns the new value of result
flushParagraph(result, currentParagraph, existingLines) ==
    IF Len(currentParagraph) > 0
    THEN LET text == trim(join(currentParagraph, " "))
         IN  IF text # "" /\ ~startsWith(text, "{{Bot_proposes") /\ ~isAlreadyVerified(text)
             THEN IF existingLines.present /\ normalizeLine(text) \in existingLines.lines
                  THEN Append(result, text)
                  ELSE Append(result, WrapperOpen \o escapePipes(text) \o WrapperClose)
             ELSE IF text # "" THEN Append(result, text)
             ELSE result
    ELSE result

\* the for loop of wrapProseWithBotProposes from line i on, then the final flush
RECURSIVE wrapLoop(_, _, _, _, _)
wrapLoop(lines, i, result, currentParagraph, existingLines) ==
    IF i > Len(lines) THEN flushParagraph(result, currentParagraph, existingLines)
    ELSE IF isNonWrappableLine(lines[i])
         THEN wrapLoop(lines, i + 1,
                       Append(flushParagraph(result, currentParagraph, existingLines), lines[i]),
                       <<>>, existingLines)
    ELSE IF isListItem(lines[i])
         THEN wrapLoop(lines, i + 1,
                       Append(flushParagraph(result, currentParagraph, existingLines),
                              wrapListItemContent(lines[i], existingLines)),
                       <<>>, existingLines)
    ELSE wrapLoop(lines, i + 1, result, Append(currentParagraph, lines[i]), existingLines)

wrapProseWithBotProposes(source, existingLines) ==
    join(wrapLoop(split(source), 1, <<>>, <<>>, existingLines), "\n")

applyVerification(source, existingLines) ==
    LET template == getTemplateWithStatus(source)
    IN  IF template # ""
        THEN LET modified == injectTemplateStatus(source, template)
                 templateStart == indexOf(modified, "{{")
             IN  IF templateStart # 0
                 THEN LET templateEnd == findTemplateEnd(modified, templateStart)
                          beforeTemplate == SubSeq(modified, 1, templateStart - 1)
                          templateContent == SubSeq(modified, templateStart, templateEnd - 1)
                          afterTemplate == From(modified, templateEnd)
                      IN  IF trim(afterTemplate) # ""
                          THEN beforeTemplate \o templateContent
                                  \o wrapProseWithBotProposes(afterTemplate, existingLines)
                          ELSE modified
                 ELSE modified
        ELSE wrapProseWithBotProposes(source, existingLines)

(***************************************************************************)
(* Inputs: documents are an opening block followed by at most MaxLines     *)
(* lines; prior revisions are whole documents.                             *)
(***************************************************************************)
MaxLines == 2

Openers ==
    { "",
      "{{Show\n|n=X\n}}\n",
      "{{Show|n=X}}\n",
      "{{Show\n|a={{x}}\n|status=proposed\n}}\n",
      "{{Venue\n|n=X\n}}\n{{Venue|status=proposed}}\n",
      "{{Song\n|n=X}} " }

LinePool ==
    { "foo",
      "* foo",
      "== H ==",
      "[[Category:A]]",
      "|x",
      "[[Jane]]",
      "* [[Jane]]",
      "a{{!}}b",
      "{{Bot_proposes|old|by=Magent}}",
      "bar {{Show |status=proposed" }

RECURSIVE Bodies(_)
Bodies(n) ==
    IF n = 0 THEN {<<>>}
    ELSE Bodies(n - 1) \cup
         {Append(b, l) : b \in {b0 \in Bodies(n - 1) : Len(b0) = n - 1}, l \in LinePool}

Documents == {o \o join(b, "\n") : o \in Openers, b \in Bodies(MaxLines)}

PriorRevisions ==
    { "* foo\n== H ==",
      "a{{!}}b\n{{Bot_proposes|foo|by=Magent}}" }

\* what fetchRevisionSource returned: a source, or null
NoPrior == [fetched |-> FALSE, source |-> ""]

Prior(p) == [fetched |-> TRUE, source |-> p]

\* onInput, lines 368-377: the baseline built from what the fetch returned
existingLinesOf(previous) ==
    IF previous.fetched /\ previous.source # ""
    THEN Baseline(buildLineSet(previous.source))
    ELSE NoBaseline

(***************************************************************************)
(* State.  The first group is one edit request going through the          *)
(* pipeline (index.ts, update-page.ts, create-page); the second group is   *)
(* the verification transform applied to one document and applied again.   *)
(***************************************************************************)
VARIABLES
    middlewares,    \* MiddlewarePipeline.middlewares: names, in registration order
    pc,             \* where wrapHandler is
    context,        \* the EditContext the tool built
    current,        \* the local 'current' of processInput, then transformedContext
    idx,            \* the loop index of processInput / processOutput (1-based)
    result,         \* the local 'current' of processOutput: the CallToolResult
    previous,       \* what fetchRevisionSource returned to onInput
    fetches,        \* number of prior-revision fetches issued for this edit
    log,            \* the hooks and the handler, in the order they ran
    tpc, tdoc, tprior, tout, tagain,
    npc,            \* the namespace classifier on its own: position
    ntitle,         \* the title it is given
    nexempt         \* what isExemptNamespace returned

pvars == <<middlewares, pc, context, current, idx, result, previous, fetches, log>>

tvars == <<tpc, tdoc, tprior, tout, tagain>>

nvars == <<npc, ntitle, nexempt>>

vars == <<middlewares, pc, context, current, idx, result, previous, fetches, log,
          tpc, tdoc, tprior, tout, tagain, npc, ntitle, nexempt>>

(***************************************************************************)
(* index.ts and types.ts: the pipeline                                     *)
(***************************************************************************)
MaxMiddlewares == 2

\* objects a caller can register: the verification middleware, and three
\* middlewares using the optional hooks of the Middleware interface
MiddlewareNames == {"verification", "stamp", "inputOnly", "outputOnly"}

\* index.ts registers verificationMiddleware once, at load; callers register the others
Registrable == MiddlewareNames \ {"verification"}

hasOnInput(mw) == mw \in {"verification", "stamp", "inputOnly"}

hasOnOutput(mw) == mw \in {"verification", "stamp", "outputOnly"}

Titles == {"Foo", "Talk:Foo", "User_talk:Bob"}

EditSources ==
    { "foo",
      "* foo\n== H ==",
      "{{Show\n|n=X\n}}\nfoo",
      "{{Bot_proposes|old|by=Magent}}\nfoo" }

RevisionIds == {7}

\* the outcomes of fetchRevisionSource: null (request failed or no source), or the source
FetchOutcomes == {NoPrior, Prior("")} \cup {Prior(p) : p \in PriorRevisions}

NoContext == [tool |-> "", title |-> "", source |-> "", comment |-> "", latestId |-> 0]

NoResult == [isError |-> FALSE, content |-> <<>>]

InitPipeline ==
    /\ middlewares = <<"verification">>
    /\ pc = "idle"
    /\ context = NoContext
    /\ current = NoContext
    /\ idx = 0
    /\ result = NoResult
    /\ previous = NoPrior
    /\ fetches = 0
    /\ log = <<>>

IdleTransform ==
    /\ tpc = "off"
    /\ tdoc = ""
    /\ tprior = NoPrior
    /\ tout = ""
    /\ tagain = ""

IdleNamespace ==
    /\ npc = "off"
    /\ ntitle = ""
    /\ nexempt = FALSE

Init == InitPipeline /\ IdleTransform /\ IdleNamespace

\* MiddlewarePipeline.register
register(mw) ==
    /\ pc = "idle"
    /\ Len(middlewares) < MaxMiddlewares
    /\ middlewares' = Append(middlewares, mw)
    /\ UNCHANGED <<pc, context, current, idx, result, previous, fetches, log>>

\* wrapHandler entered with the context the tool built
Enter(ctx) ==
    /\ pc \in {"idle", "done"}
    /\ context' = ctx
    /\ current' = ctx
    /\ idx' = 1
    /\ pc' = "processInput"
    /\ result' = NoResult
    /\ previous' = NoPrior
    /\ fetches' = 0
    /\ log' = <<>>
    /\ UNCHANGED middlewares

updatePageTool ==
    \E title \in Titles, source \in EditSources, latestId \in RevisionIds :
        Enter([tool |-> "update-page", title |-> title, source |-> source,
               comment |-> "", latestId |-> latestId])

createPageTool ==
    \E title \in Titles, source \in EditSources :
        Enter([tool |-> "create-page", title |-> title, source |-> source,
               comment |-> "", latestId |-> 0])

InputEvent(i, got, gave) == [hook |-> "onInput", i |-> i, ctx |-> got, gave |-> gave,
                             res |-> NoResult, ret |-> NoResult]

OutputEvent(i, ctx, got, gave) == [hook |-> "onOutput", i |-> i, ctx |-> ctx, gave |-> ctx,
                                   res |-> got, ret |-> gave]

HandlerEvent(ctx, ret) == [hook |-> "handler", i |-> 0, ctx |-> ctx, gave |-> ctx,
                           res |-> NoResult, ret |-> ret]

\* one iteration of the loop of processInput, for a middleware returning ctx
InputStep(ctx) ==
    /\ log' = Append(log, InputEvent(idx, current, ctx))
    /\ current' = ctx
    /\ idx' = idx + 1
    /\ UNCHANGED <<middlewares, pc, context, result>>

AtInput(mw) ==
    /\ pc = "processInput"
    /\ idx <= Len(middlewares)
    /\ middlewares[idx] = mw

\* processInput: a middleware without onInput is skipped
skipInput ==
    /\ pc = "processInput"
    /\ idx <= Len(middlewares)
    /\ ~hasOnInput(middlewares[idx])
    /\ idx' = idx + 1
    /\ UNCHANGED <<middlewares, pc, context, current, result, previous, fetches, log>>

\* onInput of a registered middleware other than verification: it marks the comment
otherOnInput ==
    \E mw \in MiddlewareNames \ {"verification"} :
        /\ AtInput(mw)
        /\ hasOnInput(mw)
        /\ InputStep([current EXCEPT !.comment = @ \o "[" \o mw \o "]"])
        /\ UNCHANGED <<previous, fetches>>

\* verificationMiddleware.onInput, exempt title
onInputExempt ==
    /\ AtInput("verification")
    /\ isExemptNamespace(current.title)
    /\ InputStep(current)
    /\ UNCHANGED <<previous, fetches>>

\* verificationMiddleware.onInput, no prior revision to fetch
onInputNoFetch ==
    /\ AtInput("verification")
    /\ ~isExemptNamespace(current.title)
    /\ ~(current.tool = "update-page" /\ current.latestId # 0)
    /\ InputStep([current EXCEPT !.source = applyVerification(current.source, NoBaseline)])
    /\ UNCHANGED <<previous, fetches>>

\* onInput giving up on the transform when the fetch returned null
onInputFetchAbortsOnFailure ==
    /\ AtInput("verification")
    /\ ~isExemptNamespace(current.title)
    /\ current.tool = "update-page" /\ current.latestId # 0
    /\ \E r \in FetchOutcomes :
          /\ previous' = r
          /\ fetches' = fetches + 1
          /\ IF r = NoPrior
             THEN InputStep(current)
             ELSE InputStep([current EXCEPT
                              !.source = applyVerification(current.source, existingLinesOf(r))])

\* verificationMiddleware.onInput, update: the prior revision is fetched, then the transform
onInputFetch ==
    /\ AtInput("verification")
    /\ ~isExemptNamespace(current.title)
    /\ current.tool = "update-page" /\ current.latestId # 0
    /\ \E r \in FetchOutcomes :
          /\ previous' = r
          /\ fetches' = fetches + 1
          /\ InputStep([current EXCEPT
                          !.source = applyVerification(current.source, existingLinesOf(r))])

\* handleUpdatePageToolWithContext / handleCreatePageToolWithContext
handlerResult(ctx, ok) ==
    IF ok
    THEN [isError |-> FALSE,
          content |-> <<IF ctx.tool = "update-page" THEN "Page updated successfully: " \o ctx.title
                        ELSE "Page created successfully: " \o ctx.title,
                        "Page object:">>]
    ELSE [isError |-> TRUE,
          content |-> <<IF ctx.tool = "update-page" THEN "Failed to update page"
                        ELSE "Failed to create page">>]

\* wrapHandler: processInput returned, the handler is awaited, processOutput starts
handler ==
    /\ pc = "processInput"
    /\ idx > Len(middlewares)
    /\ \E ok \in BOOLEAN :
          /\ result' = handlerResult(current, ok)
          /\ log' = Append(log, HandlerEvent(current, handlerResult(current, ok)))
    /\ pc' = "processOutput"
    /\ idx' = Len(middlewares)
    /\ UNCHANGED <<middlewares, context, current, previous, fetches>>

\* processOutput handing the hooks the context of the tool, not transformedContext
OutputStepStale(res) ==
    /\ log' = Append(log, OutputEvent(idx, context, result, res))
    /\ result' = res
    /\ idx' = idx - 1
    /\ UNCHANGED <<middlewares, pc, context, current, previous, fetches>>

OutputStep(res) ==
    /\ log' = Append(log, OutputEvent(idx, current, result, res))
    /\ result' = res
    /\ idx' = idx - 1
    /\ UNCHANGED <<middlewares, pc, context, current, previous, fetches>>

AtOutput(mw) ==
    /\ pc = "processOutput"
    /\ idx >= 1
    /\ middlewares[idx] = mw

skipOutput ==
    /\ pc = "processOutput"
    /\ idx >= 1
    /\ ~hasOnOutput(middlewares[idx])
    /\ idx' = idx - 1
    /\ UNCHANGED <<middlewares, pc, context, current, result, previous, fetches, log>>

otherOnOutput ==
    \E mw \in MiddlewareNames \ {"verification"} :
        /\ AtOutput(mw)
        /\ hasOnOutput(mw)
        /\ OutputStep([result EXCEPT !.content = Append(@, "[" \o mw \o "]")])

\* onOutput without the exemption test
onOutputAlwaysNotes ==
    /\ AtOutput("verification")
    /\ IF ~result.isError
       THEN OutputStep([result EXCEPT !.content = Append(@, AdvisoryNote)])
       ELSE OutputStep(result)

\* verificationMiddleware.onOutput
onOutput ==
    /\ AtOutput("verification")
    /\ IF ~result.isError /\ ~isExemptNamespace(current.title)
       THEN OutputStep([result EXCEPT !.content = Append(@, AdvisoryNote)])
       ELSE OutputStep(result)

\* wrapHandler returns what processOutput returned
return ==
    /\ pc = "processOutput"
    /\ idx = 0
    /\ pc' = "done"
    /\ UNCHANGED <<middlewares, context, current, idx, result, previous, fetches, log>>

Next ==
    \/ (\E mw \in Registrable : register(mw)) /\ UNCHANGED <<tvars, nvars>>
    \/ updatePageTool /\ UNCHANGED <<tvars, nvars>>
    \/ createPageTool /\ UNCHANGED <<tvars, nvars>>
    \/ skipInput /\ UNCHANGED <<tvars, nvars>>
    \/ otherOnInput /\ UNCHANGED <<tvars, nvars>>
    \/ onInputExempt /\ UNCHANGED <<tvars, nvars>>
    \/ onInputNoFetch /\ UNCHANGED <<tvars, nvars>>
    \/ onInputFetch /\ UNCHANGED <<tvars, nvars>>
    \/ handler /\ UNCHANGED <<tvars, nvars>>
    \/ skipOutput /\ UNCHANGED <<tvars, nvars>>
    \/ otherOnOutput /\ UNCHANGED <<tvars, nvars>>
    \/ onOutput /\ UNCHANGED <<tvars, nvars>>
    \/ return /\ UNCHANGED <<tvars, nvars>>

Spec == Init /\ [][Next]_vars

(***************************************************************************)
(* The transform on its own: applyVerification on a non-exempt document    *)
(* with the baseline onInput built, then on its own output.                *)
(***************************************************************************)
InitTransform ==
    /\ InitPipeline
    /\ IdleNamespace
    /\ tpc = "start"
    /\ tdoc \in Documents
    /\ tprior \in {NoPrior} \cup {Prior(p) : p \in PriorRevisions}
    /\ tout = ""
    /\ tagain = ""

\* the transform of a non-exempt edit
Transform ==
    /\ tpc = "start"
    /\ tout' = applyVerification(tdoc, existingLinesOf(tprior))
    /\ tpc' = "applied"
    /\ UNCHANGED <<tdoc, tprior, tagain>>
    /\ UNCHANGED <<pvars, nvars>>

\* the output submitted again, same baseline
Retransform ==
    /\ tpc = "applied"
    /\ tagain' = applyVerification(tout, existingLinesOf(tprior))
    /\ tpc' = "reapplied"
    /\ UNCHANGED <<tdoc, tprior, tout>>
    /\ UNCHANGED <<pvars, nvars>>

NextTransform == Transform \/ Retransform

SpecTransform == InitTransform /\ [][NextTransform]_vars

(***************************************************************************)
(* The namespace classifier on its own: isExemptNamespace on a title made  *)
(* of at most MaxParts parts separated by colons.                          *)
(***************************************************************************)
MaxParts == 3

TitleParts ==
    { "Foo", "Talk", "tEmPlAtE", "User", "MediaWiki", "Special", "PickiPedia",
      "User_talk", "b_TALK", "Talks", "" }

RECURSIVE PartLists(_)
PartLists(n) ==
    IF n = 0 THEN {<<>>}
    ELSE PartLists(n - 1) \cup
         {Append(b, l) : b \in {b0 \in PartLists(n - 1) : Len(b0) = n - 1}, l \in TitleParts}

ClassifierTitles == {join(ps, ":") : ps \in PartLists(MaxParts) \ {<<>>}}

InitNamespace ==
    /\ InitPipeline
    /\ IdleTransform
    /\ npc = "start"
    /\ ntitle \in ClassifierTitles
    /\ nexempt = FALSE

\* isExemptNamespace( context.title ), as onInput and onOutput call it
Classify ==
    /\ npc = "start"
    /\ nexempt' = isExemptNamespace(ntitle)
    /\ npc' = "classified"
    /\ UNCHANGED <<ntitle, pvars, tvars>>

NextNamespace == Classify

SpecNamespace == InitNamespace /\ [][NextNamespace]_vars

(***************************************************************************)
(* Vocabulary of the properties                                            *)
(***************************************************************************)
Wrapped(text) == WrapperOpen \o escapePipes(text) \o WrapperClose

LinesOf(doc) == split(doc)

LineSetOf(doc) == {LinesOf(doc)[i] : i \in 1..Len(LinesOf(doc))}

\* a heading, a category link or table syntax
IsStructuralLine(line) ==
    LET trimmed == trim(line)
    IN  \/ startsWith(trimmed, "==")
        \/ startsWith(trimmed, "[[Category:")
        \/ startsWith(trimmed, "{|")
        \/ startsWith(trimmed, "|}")
        \/ startsWith(trimmed, "|")
        \/ startsWith(trimmed, "!")

IsProseLine(line) == ~isNonWrappableLine(line) /\ ~isListItem(line)

IsListLine(line) == ~isNonWrappableLine(line) /\ isListItem(line)

\* line i of lines is a prose paragraph of its own
IsSingleLineParagraph(lines, i) ==
    /\ IsProseLine(lines[i])
    /\ (i > 1 => ~IsProseLine(lines[i - 1]))
    /\ (i < Len(lines) => ~IsProseLine(lines[i + 1]))

\* the payload of a list item: the text after the markers and the whitespace
PayloadOf(line) ==
    LET trimmed == trim(line)
        pe == CHOOSE j \in 1..(Len(trimmed) + 1) :
                 /\ \A k \in 1..(j - 1) : Char(trimmed, k) \in ListMarkers
                 /\ (j = Len(trimmed) + 1 \/ Char(trimmed, j) \notin ListMarkers)
    IN  From(trimmed, SkipWs(trimmed, pe))

RECURSIVE Embeds(_, _)
\* a is a subsequence of b
Embeds(a, b) ==
    IF Len(a) = 0 THEN TRUE
    ELSE IF Len(b) = 0 THEN FALSE
    ELSE IF Head(a) = Head(b) THEN Embeds(Tail(a), Tail(b))
    ELSE Embeds(a, Tail(b))

OnTemplatePath(doc) == getTemplateWithStatus(doc) # ""

\* the position after the balanced closing braces of the template that opens doc
OpeningTemplateEnd(doc) == findTemplateEnd(doc, indexOf(doc, "{{"))

\* the opening template has a status=proposed field inside its balanced span
CarriesProposed(doc) ==
    \E q \in indexOf(doc, "{{")..(OpeningTemplateEnd(doc) - 1) :
        StatusFieldAt(doc, q, {"proposed"})

\* the position after the name of the template that opens doc
NameEnd(doc) == SkipWs(doc, 1) + 2 + Len(getTemplateWithStatus(doc))

\* the name of the template that opens doc is followed by a newline
OpeningLineEnds(doc) ==
    \E k \in NameEnd(doc)..(SkipWs(doc, NameEnd(doc)) - 1) : Char(doc, k) = "\n"

\* status=proposed is the first field of the template that opens doc
ProposedIsFirstField(doc) == StatusFieldAt(doc, SkipWs(doc, NameEnd(doc)), {"proposed"})

\* the lines the content segmenter walks: the whole document, or what follows
\* the template that opens it
SegmentedLines(doc) ==
    IF OnTemplatePath(doc) THEN LinesOf(From(doc, OpeningTemplateEnd(doc)))
    ELSE LinesOf(doc)

Contains(s, lit) == \E p \in 1..Len(s) : MatchAt(s, p, lit)

\* the transform has run once on tdoc
Applied == tpc = "applied"

(***************************************************************************)
(* C1 - C10                                                                *)
(***************************************************************************)

\* C1: idempotence - applying the transform to its own output, same baseline,
\* gives the same text.
Idempotent == tpc = "reapplied" => tagain = tout

\* C2: for an exempt title onInput returns the context it received, no prior
\* revision is fetched, and onOutput returns the result it received (no note).
ExemptionHolds ==
    /\ isExemptNamespace(context.title) => fetches = 0
    /\ \A k \in 1..Len(log) :
          (/\ log[k].hook # "handler"
           /\ middlewares[log[k].i] = "verification"
           /\ isExemptNamespace(log[k].ctx.title))
          => /\ log[k].hook = "onInput" => log[k].gave = log[k].ctx
             /\ log[k].hook = "onOutput" => log[k].ret = log[k].res

\* an update of an exempt page with wrappable prose went through successfully
ExemptionWitness ==
    /\ pc = "done"
    /\ context.title = "Talk:Foo"
    /\ context.tool = "update-page"
    /\ context.source = "foo"
    /\ ~result.isError
    /\ current.source = "foo"

\* C3: a document that already has a Bot_proposes invocation or a status field
\* set to proposed or unverified is returned unchanged.
AlreadyFlaggedUntouched == (Applied /\ hasVerificationMarkers(tdoc)) => tout = tdoc

\* C4: on an update with a fetched prior revision, a single-line paragraph or a
\* list item that is a line of the prior revision, wrapped or not wrapped
\* there, is emitted unwrapped.
DiffAwareBlocks ==
    (Applied /\ tprior.fetched /\ tprior.source # "") =>
        LET lines == SegmentedLines(tdoc)
            old == LineSetOf(tprior.source)
        IN  \A i \in 1..Len(lines) :
               (\/ /\ IsSingleLineParagraph(lines, i)
                   /\ (lines[i] \in old \/ Wrapped(lines[i]) \in old)
                \/ /\ IsListLine(lines[i])
                   /\ (lines[i] \in old \/ wrapListItemContent(lines[i], NoBaseline) \in old))
               => lines[i] \in LineSetOf(tout)

\* C5: a single-line paragraph that is not verified and not in the baseline is
\* emitted inside the wrapper, and stripping the wrapper gives the paragraph back.
WrapRoundTrip ==
    Applied =>
        LET lines == SegmentedLines(tdoc)
            base == existingLinesOf(tprior)
        IN  \A i \in 1..Len(lines) :
               (/\ IsSingleLineParagraph(lines, i)
                /\ ~isAlreadyVerified(lines[i])
                /\ ~(base.present /\ normalizeLine(lines[i]) \in base.lines))
               => /\ Contains(tout, Wrapped(trim(lines[i])))
                  /\ stripBotProposes(Wrapped(trim(lines[i]))) = trim(lines[i])

\* the structural lines of doc, in order, leaving out line number skip
StructuralLinesBut(doc, skip) ==
    LET lines == LinesOf(doc)
        keep == SelectSeq([i \in 1..Len(lines) |-> i],
                          LAMBDA i : i # skip /\ IsStructuralLine(lines[i]))
    IN  [k \in 1..Len(keep) |-> lines[keep[k]]]

\* the number of the line on which text follows the closing braces of the
\* template that opens doc; 0 when there is no such line
ClosingLineWithText(doc) ==
    IF OnTemplatePath(doc) /\ OpeningTemplateEnd(doc) <= Len(doc)
          /\ Char(doc, OpeningTemplateEnd(doc)) # "\n"
    THEN Cardinality({p \in 1..(OpeningTemplateEnd(doc) - 1) : Char(doc, p) = "\n"}) + 1
    ELSE 0

\* C6 as claimed: every heading, category link and table-syntax line of the
\* input is a line of the output, in the same order, on both paths.
StructuralInvariance ==
    Applied => Embeds(StructuralLinesBut(tdoc, 0), LinesOf(tout))

\* C6: the same, except for a line on which text follows the closing braces of
\* the template that opens the document.
StructuralInvarianceOffClosingLine ==
    Applied => Embeds(StructuralLinesBut(tdoc, ClosingLineWithText(tdoc)), LinesOf(tout))

\* a heading after a template, followed by prose that got wrapped
StructuralWitness ==
    /\ tpc = "applied"
    /\ tdoc = "{{Show\n|n=X\n}}\n== H ==\nfoo"
    /\ tprior = NoPrior
    /\ tout = "{{Show\n|status=proposed\n|n=X\n}}\n== H ==\n" \o Wrapped("foo")

\* C7: a recognized template that opens the document and does not carry
\* status=proposed gets status=proposed as its first field.
InjectsFirstField ==
    (Applied /\ OnTemplatePath(tdoc) /\ ~CarriesProposed(tdoc)) => ProposedIsFirstField(tout)

\* C8 as claimed: a block that is exactly one bracketed link is emitted
\* unchanged, as a list item and as a paragraph.
BareLinkNeverWrapped ==
    Applied =>
        LET lines == SegmentedLines(tdoc)
        IN  \A i \in 1..Len(lines) :
               /\ (IsListLine(lines[i]) /\ isBareLink(PayloadOf(lines[i])))
                  => Contains(tout, lines[i])
               /\ (IsSingleLineParagraph(lines, i) /\ isBareLink(trim(lines[i])))
                  => ~Contains(tout, Wrapped(trim(lines[i])))

\* C8: a list item whose payload is exactly one bracketed link is emitted
\* unchanged; a prose paragraph that is exactly one bracketed link is wrapped
\* unless it is already verified or the baseline has it.
BareLinkListItemKept ==
    Applied =>
        LET lines == SegmentedLines(tdoc)
            base == existingLinesOf(tprior)
        IN  \A i \in 1..Len(lines) :
               /\ (IsListLine(lines[i]) /\ isBareLink(PayloadOf(lines[i])))
                  => Contains(tout, lines[i])
               /\ (/\ IsSingleLineParagraph(lines, i)
                   /\ isBareLink(trim(lines[i]))
                   /\ ~isAlreadyVerified(lines[i])
                   /\ ~(base.present /\ normalizeLine(lines[i]) \in base.lines))
                  => Contains(tout, Wrapped(trim(lines[i])))

\* a bare-link list item next to a bare-link paragraph, no baseline
BareLinkWitness ==
    /\ tpc = "applied"
    /\ tdoc = "* [[Jane]]\n[[Jane]]"
    /\ tprior = NoPrior
    /\ tout = "* [[Jane]]\n" \o Wrapped("[[Jane]]")

HookRank(e) == IF e.hook = "onInput" THEN 0 ELSE IF e.hook = "handler" THEN 1 ELSE 2

\* C9: onInput hooks run in registration order, each on the context the one
\* before returned; then the handler, once, on the transformed context; then
\* the onOutput hooks in reverse order, each on the transformed context and the
\* result the one before returned.
OnionOrder ==
    /\ \A j \in 1..Len(log), k \in 1..Len(log) :
          j < k =>
             /\ HookRank(log[j]) <= HookRank(log[k])
             /\ ~(log[j].hook = "handler" /\ log[k].hook = "handler")
             /\ (log[j].hook = "onInput" /\ log[k].hook = "onInput") => log[j].i < log[k].i
             /\ (log[j].hook = "onOutput" /\ log[k].hook = "onOutput") => log[j].i > log[k].i
    /\ Len(log) > 0 => log[1].ctx = context
    /\ \A k \in 1..(Len(log) - 1) :
          /\ log[k + 1].ctx = log[k].gave
          /\ log[k + 1].hook = "onOutput" => log[k + 1].res = log[k].ret
    /\ pc = "done" =>
          /\ {log[k].i : k \in {n \in 1..Len(log) : log[n].hook = "onInput"}}
                = {i \in 1..Len(middlewares) : hasOnInput(middlewares[i])}
          /\ {log[k].i : k \in {n \in 1..Len(log) : log[n].hook = "onOutput"}}
                = {i \in 1..Len(middlewares) : hasOnOutput(middlewares[i])}
          /\ \E k \in 1..Len(log) : log[k].hook = "handler" /\ log[k].ctx = current
          /\ result = log[Len(log)].ret

\* two middlewares with both hooks around a successful update that was rewritten
OnionWitness ==
    /\ pc = "done"
    /\ middlewares = <<"verification", "stamp">>
    /\ context.tool = "update-page"
    /\ current.source # context.source
    /\ ~result.isError
    /\ Len(log) = 5

\* C10: a template that carries status=proposed inside its balanced span is
\* left unchanged; a status=proposed outside the span does not count, so the
\* template is then injected.
NoDoubleInjection ==
    (Applied /\ OnTemplatePath(tdoc)) =>
        LET e == OpeningTemplateEnd(tdoc)
        IN  IF CarriesProposed(tdoc)
            THEN MatchAt(tout, 1, SubSeq(tdoc, 1, e - 1))
            ELSE OpeningLineEnds(tdoc) => ProposedIsFirstField(tout)

(***************************************************************************)
(* C11 - C12                                                               *)
(***************************************************************************)

\* the onInput call of the verification middleware is entry k of the log
IsVerificationInput(k) ==
    /\ log[k].hook = "onInput"
    /\ middlewares[log[k].i] = "verification"

\* C11: the prior revision is fetched at most once per edit, and only for an
\* update-page edit of a non-exempt title that has a revision id; when the
\* fetch fails onInput returns the document transformed with no baseline, and
\* the edit handler is still called.
DegradedBaseline ==
    /\ fetches <= 1
    /\ fetches = 1 =>
          /\ context.tool = "update-page"
          /\ context.latestId # 0
          /\ ~isExemptNamespace(context.title)
    /\ context.tool = "create-page" => fetches = 0
    /\ (fetches = 1 /\ previous = NoPrior) =>
          /\ \A k \in 1..Len(log) :
                IsVerificationInput(k) =>
                   log[k].gave = [log[k].ctx EXCEPT
                                    !.source = applyVerification(log[k].ctx.source, NoBaseline)]
          /\ pc = "done" => \E k \in 1..Len(log) : log[k].hook = "handler"

\* an update whose fetch failed was rewritten and reached the handler
DegradedBaselineWitness ==
    /\ pc = "done"
    /\ context.tool = "update-page"
    /\ context.source = "* foo\n== H =="
    /\ fetches = 1
    /\ previous = NoPrior
    /\ current.source = "* " \o Wrapped("foo") \o "\n== H =="
    /\ \E k \in 1..Len(log) : log[k].hook = "handler"

\* the text of a title before its first colon
PrefixOf(title) == SubSeq(title, 1, indexOf(title, ":") - 1)

EndsWithCI(s, lit) == MatchAtCI(s, Len(s) - Len(lit) + 1, lit)

\* C12: a title is exempt exactly when it has a colon and the text before the
\* first colon is, whatever the case, one of the exempt namespace names or ends
\* with _talk.
NamespaceRule ==
    npc = "classified" =>
        (nexempt <=>
            /\ indexOf(ntitle, ":") # 0
            /\ \/ \E k \in 1..Len(EXEMPT_NAMESPACES) :
                     toLowerCase(PrefixOf(ntitle)) = toLowerCase(EXEMPT_NAMESPACES[k])
               \/ EndsWithCI(PrefixOf(ntitle), "_talk"))

====
